---------------------------- MODULE Spec2Model ----------------------------
(***************************************************************************)
(* OmegaOne game console: the plugin host (src/host.py).                   *)
(*                                                                         *)
(* Three kinds of thread share the GameHost object and the plugin files:   *)
(*   - the host thread (GameHost.__init__ then GameHost.run),              *)
(*   - the watchdog observer thread (ReloadHandler.on_modified),           *)
(*   - one thread per "Ask AI" press (GameHost.run_ai_fix._task).          *)
(* The host thread is a pc-machine whose steps are cut exactly where it    *)
(* reads or writes something another thread can touch: reload_queued,      *)
(* current_game_name and the entry files on disk.                          *)
(*                                                                         *)
(* Text (file contents, collaborator responses, error messages) is a       *)
(* sequence of lexical tokens, each standing for a run of characters:      *)
(*   "F"  the fence marker ``` (3 characters)                              *)
(*   "P"  the word python (6)                                              *)
(*   "E"  the word Error (5)                                               *)
(*   "W"  one whitespace character (space or newline)                      *)
(*   "#"  the character #                                                  *)
(*   "X"  one other character                                              *)
(*   "L"  a run of LongRun other characters                                *)
(*   "M"  the tail ": GEMINI_API_KEY ... variables." of host.py:35         *)
(*   a code chunk ("pendulum", "orbit", "broken", "flaky", "hookless"):    *)
(*        the body                                                         *)
(*        of a plugin's logic.py, free of fence markers and of leading or  *)
(*        trailing whitespace.                                             *)
(***************************************************************************)
EXTENDS Integers, Sequences, FiniteSets, TLC

\* ------------------------------------------------------------------ bounds
\* Longest text (in tokens) enumerated for plugin sources in SpecPatch.
MaxTextLen == 3
\* Longest exception message (in tokens) enumerated for the collaborator.
MaxMsgLen == 2
\* Characters in the run the token "L" stands for.
LongRun == 100
\* Clock readings per second of time.time().
TicksPerSec == 2
\* Clock readings after the first one.
MaxTime == 4
\* Patch worker threads that can exist at once in the model.
MaxWorkers == 2
\* Bodies a plugin's update hook adds to the world over one load.
MaxSpawn == 1

\* ------------------------------------------------------- program constants
\* host.py:194  len(new_code) < 100
ShortLimit == 100
\* host.py:35  characters of the message after the word "Error"
KeyMsgTail == 52
\* games/pendulum/logic.py: characters in the file
PendulumLen == 1897

\* -------------------------------------------------------------------- text
CodeChunks == {"pendulum", "orbit", "broken", "flaky", "hookless"}

\* Number of characters a token stands for.
Width(tok) ==
  CASE tok = "F" -> 3
    [] tok = "P" -> 6
    [] tok = "E" -> 5
    [] tok = "L" -> LongRun
    [] tok = "M" -> KeyMsgTail
    [] tok = "pendulum" -> PendulumLen
    [] tok = "orbit" -> 900
    [] tok = "broken" -> 60
    [] tok = "flaky" -> 300
    [] tok = "hookless" -> 20
    [] OTHER -> 1

\* len(s)
RECURSIVE StrLen(_)
StrLen(text) ==
  IF text = <<>> THEN 0 ELSE Width(Head(text)) + StrLen(Tail(text))

\* First index at which pat occurs in text, 0 when it does not (str.find + 1).
Find(text, pat) ==
  LET hits == {i \in 1..(Len(text) - Len(pat) + 1) :
                 SubSeq(text, i, i + Len(pat) - 1) = pat}
  IN IF hits = {} THEN 0 ELSE CHOOSE i \in hits : \A j \in hits : i <= j

\* pat in text
Contains(text, pat) == Find(text, pat) # 0

\* text.split(sep): the parts between the non-overlapping occurrences of sep,
\* found left to right.
RECURSIVE Split(_, _)
Split(text, sep) ==
  LET i == Find(text, sep)
  IN IF i = 0 THEN <<text>>
     ELSE <<SubSeq(text, 1, i - 1)>>
            \o Split(SubSeq(text, i + Len(sep), Len(text)), sep)

\* text.strip(): leading and trailing whitespace removed.
RECURSIVE LStrip(_)
LStrip(text) ==
  IF text # <<>> /\ Head(text) = "W" THEN LStrip(Tail(text)) ELSE text

RECURSIVE RStrip(_)
RStrip(text) ==
  IF text # <<>> /\ text[Len(text)] = "W"
  THEN RStrip(SubSeq(text, 1, Len(text) - 1)) ELSE text

Strip(text) == RStrip(LStrip(text))

Fence == <<"F">>
FencePython == <<"F", "P">>

\* "Error" in text.  The chunk "broken" holds a raise of a RuntimeError.
HasErrorWord(text) ==
  \E i \in 1..Len(text) : text[i] \in {"E", "broken"}

\* host.py:35
KeyMissingMsg == <<"E", "M">>
\* host.py:65  "# AI Error: "
AIErrorPrefix == <<"#", "W", "X", "X", "W", "E", "X", "W">>

\* host.py:58-63: the code payload of a response text.
ExtractCodeNoStrip(text) ==
  IF Contains(text, FencePython)
  THEN Split(Split(text, FencePython)[2], Fence)[1]
  ELSE IF Contains(text, Fence)
  THEN Split(Split(text, Fence)[2], Fence)[1]
  ELSE text
ExtractCode(text) ==
  IF Contains(text, FencePython)
  THEN Strip(Split(Split(text, FencePython)[2], Fence)[1])
  ELSE IF Contains(text, Fence)
  THEN Strip(Split(Split(text, Fence)[2], Fence)[1])
  ELSE text

\* AIAgent.suggest_fix.  hasModel: self.model is set (GEMINI_API_KEY given);
\* outcome: what generate_content / response.text did, a response text or a
\* raised exception with its message.
SuggestFix(hasModel, outcome) ==
  IF ~hasModel THEN KeyMissingMsg
  ELSE IF outcome.kind = "raise" THEN AIErrorPrefix \o outcome.text
  ELSE ExtractCode(outcome.text)

\* host.py:194  the "basic error check" of _task: TRUE when nothing is written.
IsErrorMarker(new_code) ==
  HasErrorWord(new_code) /\ StrLen(new_code) < ShortLimit

\* All texts of at most n tokens over the alphabet toks.
RECURSIVE TextsUpTo(_, _)
TextsUpTo(toks, n) ==
  IF n = 0 THEN {<<>>}
  ELSE LET shorter == TextsUpTo(toks, n - 1)
       IN shorter \cup {Append(t, c) : t \in shorter, c \in toks}


\* ----------------------------------------------------------------- plugins
\* Directory listing of GAMES_DIR, in os.listdir order; "scratch" holds no
\* logic.py.
Dirs == <<"pendulum", "orbit", "scratch">>
\* The directories that hold an entry file.
Games == {"pendulum", "orbit"}

AllHooks == {"setup", "update", "draw"}

\* What a code chunk defines.  ops: the registrations setup makes into the
\* space it is given, in order, "raise" being a raised exception; upd, drw:
\* "ok" (returns) or "flaky" (returns or raises; update may also add a body
\* to the space setup received).
\* pendulum: games/pendulum/logic.py; the others are plugins an author could
\* write: a second game of two bodies and a joint, one whose setup raises
\* after its first registration, one whose per-tick hooks can raise, one
\* that defines none of the hooks.
Plugin(chunk) ==
  CASE chunk = "pendulum" ->
         [hooks |-> AllHooks, ops |-> <<"body", "constraint">>,
          upd |-> "ok", drw |-> "ok"]
    [] chunk = "orbit" ->
         [hooks |-> AllHooks, ops |-> <<"body", "body", "constraint">>,
          upd |-> "ok", drw |-> "ok"]
    [] chunk = "broken" ->
         [hooks |-> AllHooks, ops |-> <<"body", "raise">>,
          upd |-> "ok", drw |-> "ok"]
    [] chunk = "flaky" ->
         [hooks |-> AllHooks, ops |-> <<"body">>,
          upd |-> "flaky", drw |-> "flaky"]
    [] OTHER ->
         [hooks |-> {}, ops |-> <<>>, upd |-> "ok", drw |-> "ok"]

\* self.current_game_module = None
NoModule ==
  [loaded |-> FALSE, src |-> <<>>, hooks |-> {}, ops |-> <<>>,
   upd |-> "ok", drw |-> "ok"]

\* host.py:164-166: what the except clause of load_game leaves as the current
\* module, old being the module current when load_game was entered.
KeepModule(old) == old
FailedModule(old) == NoModule

NotWhite(tok) == tok # "W"

\* Executing the text of a logic.py as a module body: ok is FALSE when the
\* import raises.  Whitespace only, or a comment: a module that defines
\* nothing.  One code chunk: what the chunk defines.  Anything else (stray
\* characters, fence markers) is not Python.
Compile(text) ==
  LET core == SelectSeq(text, NotWhite)
  IN IF core = <<>> \/ core[1] = "#"
     THEN [ok |-> TRUE, def |-> Plugin("hookless")]
     ELSE IF Len(core) = 1 /\ core[1] \in CodeChunks
     THEN [ok |-> TRUE, def |-> Plugin(core[1])]
     ELSE [ok |-> FALSE, def |-> Plugin("hookless")]

\* importlib.import_module: a new module object holding what the source
\* defines.
FreshModule(text) ==
  LET d == Compile(text).def
  IN [loaded |-> TRUE, src |-> text, hooks |-> d.hooks, ops |-> d.ops,
      upd |-> d.upd, drw |-> d.drw]

\* importlib.reload: the source is executed again in the namespace of the
\* module object already in sys.modules, so a name the new source does not
\* define keeps its old binding.
StaleModule(old, text) == old
ReloadedModule(old, text) ==
  LET d == Compile(text).def
  IN [loaded |-> TRUE, src |-> text, hooks |-> old.hooks \cup d.hooks,
      ops |-> IF "setup" \in d.hooks THEN d.ops ELSE old.ops,
      upd |-> IF "update" \in d.hooks THEN d.upd ELSE old.upd,
      drw |-> IF "draw" \in d.hooks THEN d.drw ELSE old.drw]

\* pymunk.Space() as the host sees it: what is registered in it.
KeepSpace(old) == old
NewSpace(old) == [bodies |-> 0, constraints |-> 0]

\* Running a setup body against a space: the registrations up to the first
\* raise.
RECURSIVE RunSetup(_, _)
RunSetup(ops, sp) ==
  IF ops = <<>> THEN [space |-> sp, raised |-> FALSE]
  ELSE IF Head(ops) = "raise" THEN [space |-> sp, raised |-> TRUE]
  ELSE IF Head(ops) = "body"
  THEN RunSetup(Tail(ops), [sp EXCEPT !.bodies = @ + 1])
  ELSE RunSetup(Tail(ops), [sp EXCEPT !.constraints = @ + 1])

\* GameHost.discover_games: the directories with a logic.py, in listing
\* order.
HasEntry(d) == d \in Games
Discover == SelectSeq(Dirs, HasEntry)

\* Paths the observer (scheduled on ".", recursive) reports.
EntryPath(g) == [dir |-> g, ext |-> "py"]
HostPath == [dir |-> ".", ext |-> "py"]
NotesPath == [dir |-> ".", ext |-> "txt"]
Paths == {EntryPath(g) : g \in Games} \cup {HostPath, NotesPath}
\* event.src_path.endswith(".py")
EndsWithAnything(p) == TRUE
EndsWithPy(p) == p.ext = "py"

\* ------------------------------------------------------------------- state
VARIABLES
  \* GameHost (host thread)
  pc,                   \* where the host thread is
  ret,                  \* who called the load_game in progress: "init",
                        \* "select", "reload"; "none" outside load_game
  loadName,             \* the argument game_name of that call
  available_games,      \* self.available_games
  current_game_name,    \* self.current_game_name
  current_game_module,  \* self.current_game_module
  space,                \* self.space
  sysmod,               \* sys.modules, the games' logic modules
  reload_queued,        \* self.reload_queued (the ReloadSignal)
  running,              \* run()'s local running
  \* the world outside the host thread
  disk,                 \* the text of each game's logic.py
  hasModel,             \* AIAgent.model is set
  observer,             \* the watchdog observer: "new", "running", "stopped"
  pending,              \* modified entry files whose event is not dispatched
  now,                  \* time.time()
  last_reload,          \* ReloadHandler.last_reload
  workers,              \* the threads started by run_ai_fix
  \* history, read by the properties only
  status,               \* the instance: Unloaded, Loading, Active, Failed
  loadedWorld,          \* the space as the last load that ended Active left it
  frame,                \* what the last tick called
  stale,                \* a tick has run since the last load began
  lastArrival,          \* arrival time of the last accepted modification event
  dropped,              \* why the watcher rejected the last event it
                        \* dispatched: "suffix", "window", or "no" (recorded
                        \* where the watcher is checked alone)
  setups,               \* calls of a setup hook by the load in progress, or
                        \* by the last load when none is
  owed                  \* a reload was triggered since the host last found
                        \* the signal set

hostVars ==
  <<pc, ret, loadName, available_games, current_game_name,
    current_game_module, space, sysmod, running>>
watchVars == <<observer, pending, now, last_reload>>
histVars ==
  <<status, loadedWorld, frame, stale, lastArrival, setups, dropped>>
vars ==
  <<pc, ret, loadName, available_games, current_game_name,
    current_game_module, space, sysmod, reload_queued, running, disk,
    hasModel, observer, pending, now, last_reload, workers, status,
    loadedWorld, frame, stale, lastArrival, setups, dropped, owed>>

\* self.current_game_name = None
NoName == "none"

\* The game an author is working on, and the sources its logic.py goes
\* through in the full model: the pendulum, a setup that raises midway,
\* hooks that can raise, a module without hooks, and a file that is not
\* Python.  Only a patch worker rewrites the other game.
Edited == Dirs[1]
HostTexts ==
  {<<"pendulum">>, <<"broken">>, <<"flaky">>, <<"hookless">>, <<"X">>}
OtherText == <<"orbit">>

\* time.time() is seconds since 1970: the first reading is more than the
\* debounce interval after last_reload = 0.
StartTime == TicksPerSec + 1
EndTime == StartTime + MaxTime
\* The reading at which a second event can be accepted after one at StartTime.
SecondAccept == StartTime + TicksPerSec + 1

IdleWorker ==
  [pc |-> "idle", req |-> NoName, target |-> NoName, code |-> <<>>,
   new_code |-> <<>>, kind |-> "none"]

NoFrame == [upd |-> "none", drw |-> "none"]

\* GameHost.__init__ up to line 108, about to load the first game found;
\* texts: the sources the edited game's file may hold.
InitWith(texts) ==
  /\ available_games = Discover
  /\ pc = "load"
  /\ ret = "init"
  /\ loadName = Discover[1]
  /\ current_game_name = NoName
  /\ current_game_module = NoModule
  /\ space = [bodies |-> 0, constraints |-> 0]
  /\ sysmod = [g \in Games |-> NoModule]
  /\ reload_queued = FALSE
  /\ running = TRUE
  /\ disk \in {d \in [Games -> texts \cup {OtherText}] :
                 /\ d[Edited] \in texts
                 /\ \A g \in Games \ {Edited} : d[g] = OtherText}
  /\ hasModel \in BOOLEAN
  /\ observer = "new"
  /\ pending = {}
  /\ now = StartTime
  /\ last_reload = 0
  /\ workers = [w \in 1..MaxWorkers |-> IdleWorker]
  /\ status = "Unloaded"
  /\ loadedWorld = [bodies |-> 0, constraints |-> 0]
  /\ frame = NoFrame
  /\ stale = FALSE
  /\ lastArrival = 0
  /\ setups = 0
  /\ dropped = "no"
  /\ owed = FALSE

Init == InitWith(HostTexts)

\* --------------------------------------------------------------- load_game
\* host.py:143-149: the name is taken and the physics is reset.
LoadBegin ==
  /\ pc = "load"
  /\ pc' = "import"
  /\ current_game_name' = loadName
  /\ space' = NewSpace(space)
  /\ status' = "Loading"
  /\ stale' = FALSE
  /\ setups' = 0
  /\ UNCHANGED <<ret, loadName, available_games, current_game_module, sysmod,
                 reload_queued, running, disk, hasModel, watchVars, workers,
                 loadedWorld, frame, lastArrival, dropped, owed>>

\* Where load_game returns to.
AfterLoadMidTick ==
  CASE ret = "init" -> "start"
    [] OTHER -> "draw"
AfterLoad ==
  CASE ret = "init" -> "start"
    [] ret = "select" -> "poll"
    [] OTHER -> "reload_end"

\* host.py:151-166: import or reload of the entry file as it is on disk now,
\* then setup against self.space; any exception leaves no module.
LoadBody ==
  /\ pc = "import"
  /\ LET text == disk[current_game_name]
         old == sysmod[current_game_name]
         imported == Compile(text).ok
         mod == IF old.loaded THEN ReloadedModule(old, text)
                ELSE FreshModule(text)
         called == imported /\ "setup" \in mod.hooks
         r == IF called THEN RunSetup(mod.ops, space)
              ELSE [space |-> space, raised |-> FALSE]
         ok == imported /\ ~r.raised
     IN /\ sysmod' = IF imported
                     THEN [sysmod EXCEPT ![current_game_name] = mod]
                     ELSE sysmod
        /\ space' = r.space
        /\ current_game_module' = IF ok THEN mod
                                   ELSE FailedModule(current_game_module)
        /\ setups' = IF called THEN setups + 1 ELSE setups
        /\ status' = IF ok THEN "Active" ELSE "Failed"
        /\ loadedWorld' = IF ok THEN r.space ELSE loadedWorld
  /\ pc' = AfterLoad
  /\ ret' = "none"
  /\ loadName' = NoName
  /\ UNCHANGED <<available_games, current_game_name, reload_queued, running,
                 disk, hasModel, watchVars, workers, frame, stale,
                 lastArrival, dropped, owed>>

\* --------------------------------------------------------------------- run
\* host.py:206-210
StartObserver ==
  /\ pc = "start"
  /\ pc' = "poll"
  /\ observer' = "running"
  /\ UNCHANGED <<ret, loadName, available_games, current_game_name,
                 current_game_module, space, sysmod, reload_queued, running,
                 disk, hasModel, pending, now, last_reload, workers, histVars,
                 owed>>

\* host.py:218-219: a QUIT event; the rest of the tick still runs.
PollQuit ==
  /\ pc = "poll"
  /\ running' = FALSE
  /\ UNCHANGED <<pc, ret, loadName, available_games, current_game_name,
                 current_game_module, space, sysmod, reload_queued, disk,
                 hasModel, watchVars, workers, histVars, owed>>

\* host.py:221-225: a selection in the game list.
PollSelect(selected) ==
  /\ pc = "poll"
  /\ IF selected # current_game_name
     THEN /\ loadName' = selected
          /\ ret' = "select"
          /\ pc' = "load"
     ELSE UNCHANGED <<loadName, ret, pc>>
  /\ UNCHANGED <<available_games, current_game_name, current_game_module,
                 space, sysmod, reload_queued, running, disk, hasModel,
                 watchVars, workers, histVars, owed>>

\* The lowest free thread slot, 0 when MaxWorkers threads exist.
FreeSlot ==
  LET free == {w \in 1..MaxWorkers : workers[w].pc = "idle"}
  IN IF free = {} THEN 0 ELSE CHOOSE w \in free : \A v \in free : w <= v

\* host.py:227-229 and run_ai_fix (180-203): the "Ask AI" button.  The
\* thread starts with nothing but a reference to the host.
PollAiButton ==
  /\ pc = "poll"
  /\ FreeSlot # 0
  /\ IF current_game_name = NoName
     THEN UNCHANGED workers
     ELSE workers' = [workers EXCEPT ![FreeSlot] =
                        [IdleWorker EXCEPT !.pc = "start",
                                           !.req = current_game_name]]
  /\ UNCHANGED <<hostVars, reload_queued, disk, hasModel, watchVars,
                 histVars, owed>>

\* host.py:173: the game process_reload loads.
ReloadTargetFirst == available_games[1]
ReloadTarget == current_game_name

\* The for loop over pygame.event.get() ends; host.py:234-235 and
\* process_reload up to its call of load_game.
ReloadCheck ==
  /\ pc = "poll"
  /\ IF reload_queued
     THEN /\ owed' = FALSE
          /\ IF current_game_name # NoName
             THEN /\ loadName' = ReloadTarget
                  /\ ret' = "reload"
                  /\ pc' = "load"
             ELSE /\ pc' = "reload_end"
                  /\ UNCHANGED <<loadName, ret>>
     ELSE /\ pc' = "frame"
          /\ UNCHANGED <<loadName, ret, owed>>
  /\ UNCHANGED <<available_games, current_game_name, current_game_module,
                 space, sysmod, reload_queued, running, disk, hasModel,
                 watchVars, workers, histVars>>

\* host.py:174: the signal is cleared once load_game has returned.
ReloadEnd ==
  /\ pc = "reload_end"
  /\ pc' = "frame"
  /\ reload_queued' = FALSE
  /\ UNCHANGED <<ret, loadName, available_games, current_game_name,
                 current_game_module, space, sysmod, running, disk, hasModel,
                 watchVars, workers, histVars, owed>>

\* host.py:240-244: what the update section of a tick can do.
UpdateOutcomes ==
  IF ~(current_game_module.loaded /\ "update" \in current_game_module.hooks)
  THEN {"skip"}
  ELSE IF current_game_module.upd = "ok" THEN {"return"}
  ELSE {"return", "raise"}
         \cup (IF space.bodies <= MaxSpawn THEN {"spawn"} ELSE {})

\* host.py:249-253: what the draw section can do after update did u.
DrawOutcomesInUpdateTry(u) ==
  IF u = "raise"
     \/ ~(current_game_module.loaded /\ "draw" \in current_game_module.hooks)
  THEN {"skip"}
  ELSE IF current_game_module.drw = "ok" THEN {"return"}
  ELSE {"return", "raise"}
DrawOutcomes(u) ==
  IF ~(current_game_module.loaded /\ "draw" \in current_game_module.hooks)
  THEN {"skip"}
  ELSE IF current_game_module.drw = "ok" THEN {"return"}
  ELSE {"return", "raise"}

\* host.py:243-244 and 252-253: what the except clause around a hook leaves
\* as the current module ("pass").
DropModule(m) == NoModule
OnHookError(m) == m

\* host.py:237-259 and the loop test of 213: step, update, draw, flip, as
\* one step of the host thread (no other thread writes what a tick reads).
Frame ==
  /\ pc = "frame"
  /\ \E u \in UpdateOutcomes :
       \E d \in DrawOutcomes(u) :
         /\ space' = IF u = "spawn" THEN [space EXCEPT !.bodies = @ + 1]
                     ELSE space
         /\ current_game_module' =
              IF u = "raise" \/ d = "raise"
              THEN OnHookError(current_game_module)
              ELSE current_game_module
         /\ frame' = [upd |-> u, drw |-> d]
  /\ stale' = TRUE
  /\ pc' = IF running THEN "poll" ELSE "stop"
  /\ UNCHANGED <<ret, loadName, available_games, current_game_name,
                 sysmod, reload_queued, running, disk,
                 hasModel, watchVars, workers, status, loadedWorld,
                 lastArrival, setups, dropped, owed>>

\* The same tick cut into its three sections, each reading the host's fields
\* when it runs.  host.py:239: self.space.step(1/60.0).
TickStep ==
  /\ pc = "frame"
  /\ pc' = "update"
  /\ stale' = TRUE
  /\ frame' = NoFrame
  /\ UNCHANGED <<ret, loadName, available_games, current_game_name,
                 current_game_module, space, sysmod, reload_queued, running,
                 disk, hasModel, watchVars, workers, status, loadedWorld,
                 lastArrival, setups, dropped, owed>>

\* host.py:240-244: the update section.
TickUpdate ==
  /\ pc = "update"
  /\ pc' = "draw"
  /\ \E u \in UpdateOutcomes :
       /\ space' = IF u = "spawn" THEN [space EXCEPT !.bodies = @ + 1]
                   ELSE space
       /\ current_game_module' =
            IF u = "raise" THEN OnHookError(current_game_module)
            ELSE current_game_module
       /\ frame' = [frame EXCEPT !.upd = u]
  /\ UNCHANGED <<ret, loadName, available_games, current_game_name, sysmod,
                 reload_queued, running, disk, hasModel, watchVars, workers,
                 status, loadedWorld, stale, lastArrival, setups, dropped, owed>>

\* host.py:247-259 and the loop test of 213: the draw section and the flip.
TickDraw ==
  /\ pc = "draw"
  /\ pc' = IF running THEN "poll" ELSE "stop"
  /\ \E d \in DrawOutcomes(frame.upd) :
       /\ current_game_module' =
            IF d = "raise" THEN OnHookError(current_game_module)
            ELSE current_game_module
       /\ frame' = [frame EXCEPT !.drw = d]
  /\ UNCHANGED <<ret, loadName, available_games, current_game_name, space,
                 sysmod, reload_queued, running, disk, hasModel, watchVars,
                 workers, status, loadedWorld, stale, lastArrival, setups,
                 dropped, owed>>

\* host.py:261-263: observer.stop(), observer.join(), pygame.quit().
Shutdown ==
  /\ pc = "stop"
  /\ pc' = "exited"
  /\ observer' = "stopped"
  /\ pending' = {}
  /\ UNCHANGED <<ret, loadName, available_games, current_game_name,
                 current_game_module, space, sysmod, reload_queued, running,
                 disk, hasModel, now, last_reload, workers, histVars, owed>>

\* ----------------------------------------------------------------- watcher
\* The observer reports a modification only while it runs.
Reported(p) == IF observer = "running" THEN pending \cup {p} ELSE pending

\* The author saves the logic.py of the game being worked on.
EditFile(text) ==
  /\ text # disk[Edited]
  /\ disk' = [disk EXCEPT ![Edited] = text]
  /\ pending' = Reported(EntryPath(Edited))
  /\ UNCHANGED <<hostVars, reload_queued, hasModel, observer, now,
                 last_reload, workers, histVars, owed>>

\* Time passes, up to the reading limit.
ClockTick(limit) ==
  /\ now < limit
  /\ now' = now + 1
  /\ UNCHANGED <<hostVars, reload_queued, disk, hasModel, observer, pending,
                 last_reload, workers, histVars, owed>>

\* host.py:76  time.time() - self.last_reload > 1.0, for a reading t
DebounceNever(t) == t - last_reload >= 0
DebounceOpen(t) == t - last_reload > TicksPerSec

\* ReloadHandler.on_modified with GameHost.trigger_reload (73-79, 168-169)
\* for an event of path p.  The clock is read twice; the second reading is
\* the one kept.
Handle(p) ==
  /\ IF EndsWithPy(p) /\ DebounceOpen(now)
     THEN /\ \E t2 \in {now, now + 1} :
               /\ t2 <= EndTime
               /\ now' = t2
               /\ last_reload' = t2
          /\ reload_queued' = TRUE
          /\ lastArrival' = now
          /\ owed' = TRUE
     ELSE UNCHANGED <<now, last_reload, reload_queued, lastArrival, owed>>
  /\ UNCHANGED <<hostVars, disk, hasModel, observer, workers, status,
                 loadedWorld, frame, stale, setups>>

\* The observer thread dispatches the event of a modified entry file.
OnModified(p) ==
  /\ observer = "running"
  /\ p \in pending
  /\ pending' = pending \ {p}
  /\ Handle(p)
  /\ UNCHANGED dropped

\* Another file under "." (the observer is scheduled on ".", recursively) is
\* modified and its event dispatched.
OtherModified(p) ==
  /\ observer = "running"
  /\ UNCHANGED pending
  /\ Handle(p)
  /\ UNCHANGED dropped

\* The dispatch of any event, with a record of the branch on_modified took:
\* which of the tests of host.py:74 and host.py:76 failed, if one did.
Dispatch(p) ==
  /\ observer = "running"
  /\ p \in pending \/ p \in {HostPath, NotesPath}
  /\ pending' = pending \ {p}
  /\ Handle(p)
  /\ dropped' = IF ~EndsWithPy(p) THEN "suffix"
                ELSE IF ~DebounceOpen(now) THEN "window"
                ELSE "no"

\* ------------------------------------------------------------ patch worker
\* A response that is src in a fenced code block, with and without the
\* language tag.
FencedPython(src) == <<"F", "P", "W">> \o src \o <<"W", "F">>
FencedPlain(src) == <<"F", "W">> \o src \o <<"W", "F">>

\* What the collaborator can do with a request when the threads are checked:
\* raise with a short message, or echo the code it was sent in a fenced
\* block.
ThreadOutcomes(code) ==
  {[kind |-> "raise", text |-> <<"X">>],
   [kind |-> "echo", text |-> FencedPython(code)]}

\* What the collaborator can do with a request in the full model: raise with
\* a short or a long message, or echo the code it was sent in a fenced block.
HostOutcomes(code) ==
  {[kind |-> "raise", text |-> <<"X">>],
   [kind |-> "raise", text |-> <<"L">>],
   [kind |-> "echo", text |-> FencedPython(code)]}

\* The tokens of the texts enumerated in SpecPatch.
PatchAlphabet == {"F", "P", "E", "W", "X", "L"}
PatchTexts == TextsUpTo(PatchAlphabet, MaxTextLen)
PatchOutcomes(code) ==
  {[kind |-> "raise", text |-> m] : m \in TextsUpTo(PatchAlphabet, MaxMsgLen)}
    \cup {[kind |-> "echo", text |-> FencedPython(code)],
          [kind |-> "echo_plain", text |-> FencedPlain(code)]}

\* host.py:188-190: the path is built from the host's current game name when
\* the thread runs, and the file is read.
WorkerOpen(w) ==
  /\ workers[w].pc = "start"
  /\ workers' = [workers EXCEPT ![w].pc = "call",
                                ![w].target = current_game_name,
                                ![w].code = disk[current_game_name]]
  /\ UNCHANGED <<hostVars, reload_queued, disk, hasModel, watchVars,
                 histVars, owed>>

\* host.py:192-198: suggest_fix, the error check and, when it passes,
\* open(path, 'w'), which empties the file.
WorkerCall(w, outcomes) ==
  /\ workers[w].pc = "call"
  /\ \E o \in outcomes :
       /\ hasModel \/ o.kind = "echo"
       /\ LET new_code == SuggestFix(hasModel, o)
              kind == IF hasModel THEN o.kind ELSE "nomodel"
          IN IF IsErrorMarker(new_code)
             THEN /\ workers' = [workers EXCEPT ![w].pc = "done",
                                                ![w].new_code = new_code,
                                                ![w].kind = kind]
                  /\ UNCHANGED <<disk, pending>>
             ELSE /\ workers' = [workers EXCEPT ![w].pc = "write",
                                                ![w].new_code = new_code,
                                                ![w].kind = kind]
                  /\ disk' = [disk EXCEPT ![workers[w].target] = <<>>]
                  /\ pending' = Reported(EntryPath(workers[w].target))
  /\ UNCHANGED <<hostVars, reload_queued, hasModel, observer, now,
                 last_reload, histVars, owed>>

\* host.py:199 and the close of the file: the new text is on disk.
WorkerWrite(w) ==
  /\ workers[w].pc = "write"
  /\ workers' = [workers EXCEPT ![w].pc = "done"]
  /\ disk' = [disk EXCEPT ![workers[w].target] = workers[w].new_code]
  /\ pending' = Reported(EntryPath(workers[w].target))
  /\ UNCHANGED <<hostVars, reload_queued, hasModel, observer, now,
                 last_reload, histVars, owed>>

\* The finished thread is gone.
WorkerExit(w) ==
  /\ workers[w].pc = "done"
  /\ workers' = [workers EXCEPT ![w] = IdleWorker]
  /\ UNCHANGED <<hostVars, reload_queued, disk, hasModel, watchVars,
                 histVars, owed>>

\* ---------------------------------------------------------- specifications
\* The whole program.
Next ==
  \/ LoadBegin
  \/ LoadBody
  \/ StartObserver
  \/ PollQuit
  \/ \E g \in Games : PollSelect(g)
  \/ PollAiButton
  \/ ReloadCheck
  \/ ReloadEnd
  \/ Frame
  \/ Shutdown
  \/ \E t \in HostTexts : EditFile(t)
  \/ ClockTick(EndTime)
  \/ \E p \in Paths : OnModified(p)
  \/ \E p \in {HostPath, NotesPath} : OtherModified(p)
  \/ \E w \in 1..MaxWorkers : WorkerOpen(w)
  \/ \E w \in 1..MaxWorkers : WorkerCall(w, HostOutcomes(workers[w].code))
  \/ \E w \in 1..MaxWorkers : WorkerWrite(w)
  \/ \E w \in 1..MaxWorkers : WorkerExit(w)

Spec == Init /\ [][Next]_vars

\* The host thread, the author and the watcher; nobody presses "Ask AI".
NextHost ==
  \/ LoadBegin
  \/ LoadBody
  \/ StartObserver
  \/ PollQuit
  \/ \E g \in Games : PollSelect(g)
  \/ ReloadCheck
  \/ ReloadEnd
  \/ Frame
  \/ Shutdown
  \/ \E t \in HostTexts : EditFile(t)
  \/ ClockTick(SecondAccept)
  \/ \E p \in Paths : OnModified(p)
  \/ \E p \in {HostPath, NotesPath} : OtherModified(p)

InitHost ==
  /\ Init
  /\ hasModel = TRUE

SpecHost == InitHost /\ [][NextHost]_vars

\* The watcher alone, from the moment the observer runs: the author saves
\* files while the clock runs.
InitWatch ==
  /\ InitWith({<<"pendulum">>})
  /\ hasModel = TRUE

NextWatch ==
  \/ LoadBegin
  \/ LoadBody
  \/ StartObserver
  \/ \E t \in HostTexts : EditFile(t)
  \/ ClockTick(EndTime)
  \/ \E p \in Paths : OnModified(p)
  \/ \E p \in {HostPath, NotesPath} : OtherModified(p)

SpecWatch == InitWatch /\ [][NextWatch]_vars

\* The watcher alone again, with the branch each dispatch took on record.
NextDrop ==
  \/ LoadBegin
  \/ LoadBody
  \/ StartObserver
  \/ \E t \in HostTexts : EditFile(t)
  \/ ClockTick(EndTime)
  \/ \E p \in Paths : Dispatch(p)

SpecDrop == InitWatch /\ [][NextDrop]_vars

\* The host thread and the patch workers; the files change only by the
\* workers' writes and the watcher's events stay undispatched.
NextThreads ==
  \/ LoadBegin
  \/ LoadBody
  \/ StartObserver
  \/ PollQuit
  \/ \E g \in Games : PollSelect(g)
  \/ PollAiButton
  \/ ReloadCheck
  \/ Frame
  \/ Shutdown
  \/ \E w \in 1..MaxWorkers : WorkerOpen(w)
  \/ \E w \in 1..MaxWorkers : WorkerCall(w, ThreadOutcomes(workers[w].code))
  \/ \E w \in 1..MaxWorkers : WorkerWrite(w)
  \/ \E w \in 1..MaxWorkers : WorkerExit(w)

SpecThreads == InitWatch /\ [][NextThreads]_vars

\* One patch request against every small source text: the host loads the
\* game, "Ask AI" is pressed once and the worker runs to its end.
NoWorkerYet == \A w \in 1..MaxWorkers : workers[w].pc = "idle"

PatchRequest == NoWorkerYet /\ PollAiButton

NextPatch ==
  \/ LoadBegin
  \/ LoadBody
  \/ StartObserver
  \/ PatchRequest
  \/ \E w \in 1..MaxWorkers : WorkerOpen(w)
  \/ \E w \in 1..MaxWorkers : WorkerCall(w, PatchOutcomes(workers[w].code))
  \/ \E w \in 1..MaxWorkers : WorkerWrite(w)

InitPatch == InitWith(PatchTexts)

SpecPatch == InitPatch /\ [][NextPatch]_vars

\* The host thread with each tick cut into step, update and draw, the author
\* and the watcher: every other thread can run between two sections of a
\* tick.
TickTexts == {<<"pendulum">>, <<"broken">>, <<"flaky">>}

InitTick ==
  /\ InitWith(TickTexts)
  /\ hasModel = TRUE

NextTick ==
  \/ LoadBegin
  \/ LoadBody
  \/ StartObserver
  \/ PollQuit
  \/ \E g \in Games : PollSelect(g)
  \/ ReloadCheck
  \/ ReloadEnd
  \/ TickStep
  \/ TickUpdate
  \/ TickDraw
  \/ Shutdown
  \/ \E t \in TickTexts : EditFile(t)
  \/ ClockTick(SecondAccept)
  \/ \E p \in Paths : OnModified(p)

SpecTick == InitTick /\ [][NextTick]_vars

\* The running loop with an author who saves the selected game's file while
\* the observer runs: nobody quits, selects or asks for a patch.  The host
\* thread keeps taking steps (the while loop of run() never blocks for
\* good), the observer thread dispatches every event it holds, and time
\* passes.
LiveTexts == {<<"pendulum">>, <<"flaky">>}

LiveEdit(text) ==
  /\ observer = "running"
  /\ EditFile(text)

HostStep ==
  \/ LoadBegin
  \/ LoadBody
  \/ StartObserver
  \/ ReloadCheck
  \/ ReloadEnd
  \/ Frame

NextLive ==
  \/ LoadBegin
  \/ LoadBody
  \/ StartObserver
  \/ ReloadCheck
  \/ ReloadEnd
  \/ Frame
  \/ \E t \in LiveTexts : LiveEdit(t)
  \/ ClockTick(SecondAccept)
  \/ \E p \in Paths : OnModified(p)

SpecLive ==
  /\ InitWatch
  /\ [][NextLive]_vars
  /\ WF_vars(HostStep)
  /\ WF_vars(\E p \in Paths : OnModified(p))
  /\ WF_vars(ClockTick(SecondAccept))

\* ------------------------------------------------------------------ claims
EmptyWorld == [bodies |-> 0, constraints |-> 0]
InFlight(w) == workers[w].pc \in {"start", "call", "write"}
Finished(w) == workers[w].pc = "done"

\* C1: when load_game returns with the instance Failed, there is no current
\* module and the world holds no body and no constraint.
C1_FailedLoadLeavesEmptyWorld ==
  status = "Failed" =>
    /\ current_game_module = NoModule
    /\ space = EmptyWorld

\* C2: no accepted reload request is lost: whenever trigger_reload has run
\* since the host last found the signal set, the signal is set.
C2_NoReloadLost == owed => reload_queued

\* C3: at most one patch worker is in flight for a plugin.
C3_OneWorkerPerPlugin ==
  \A v, w \in 1..MaxWorkers :
    (v # w /\ InFlight(v) /\ InFlight(w)) => workers[v].req # workers[w].req

\* C4: when the collaborator is unconfigured or raises, the entry file is
\* unchanged once the worker has completed, whatever the error message.
C4_ErrorLeavesFileUnchanged ==
  \A w \in 1..MaxWorkers :
    (Finished(w) /\ workers[w].kind \in {"nomodel", "raise"})
      => disk[workers[w].target] = workers[w].code

\* C5 as stated: when the collaborator echoes the source in a fenced block,
\* the entry file is byte-identical to the source once the worker has
\* completed.
C5_RoundTripIdentical ==
  \A w \in 1..MaxWorkers :
    (Finished(w) /\ workers[w].kind \in {"echo", "echo_plain"})
      => disk[workers[w].target] = workers[w].code

\* The source up to its first fence marker, all of it when it has none.
BeforeFence(code) ==
  LET i == CHOOSE k \in 1..(Len(code) + 1) :
             /\ k = Len(code) + 1 \/ code[k] = "F"
             /\ \A j \in 1..(k - 1) : code[j] # "F"
  IN [j \in 1..(i - 1) |-> code[j]]

\* Whitespace at neither end.
Trimmed(text) ==
  text = <<>> \/ (text[1] # "W" /\ text[Len(text)] # "W")

\* The trimmed form of text: its longest trimmed substring that is preceded
\* and followed by whitespace only.
TrimOf(text) ==
  CHOOSE t \in {SubSeq(text, a, b) : a \in 1..(Len(text) + 1),
                                     b \in 0..Len(text)} :
    /\ Trimmed(t)
    /\ \E a \in 0..Len(text), b \in 0..Len(text) :
         /\ a + Len(t) + b = Len(text)
         /\ text = [j \in 1..a |-> "W"] \o t \o [j \in 1..b |-> "W"]

\* C5 as amended: when the collaborator echoes the source in a fenced block
\* (tagged python, or untagged and the source holds no ```python), the entry
\* file then holds the source up to its first fence marker with leading and
\* trailing whitespace removed; or it is unchanged, when that text holds
\* "Error" and is shorter than 100 characters.
C5_RoundTripTrimmed ==
  \A w \in 1..MaxWorkers :
    (/\ Finished(w)
     /\ \/ workers[w].kind = "echo"
        \/ /\ workers[w].kind = "echo_plain"
           /\ \A i \in 1..(Len(workers[w].code) - 1) :
                ~(workers[w].code[i] = "F" /\ workers[w].code[i + 1] = "P"))
      => LET payload == TrimOf(BeforeFence(workers[w].code))
         IN disk[workers[w].target] =
              IF (\E i \in 1..Len(payload) : payload[i] = "E")
                 /\ StrLen(payload) < ShortLimit
              THEN workers[w].code
              ELSE payload

\* C5 witness: an echoed source with whitespace at an end was written back
\* without it.
C5_Witness ==
  \E w \in 1..MaxWorkers :
    /\ Finished(w)
    /\ workers[w].kind = "echo"
    /\ ~Trimmed(workers[w].code)
    /\ disk[workers[w].target] # workers[w].code
    /\ disk[workers[w].target] # <<>>

\* C6: of the modification events that arrive within a window shorter than
\* the debounce interval at most one is accepted: an event is accepted only
\* when the last accepted one arrived at least 1.0 s before it.
C6_Debounce ==
  [][last_reload' # last_reload => now - lastArrival >= TicksPerSec]_vars

\* C6 witness: an event was accepted after the first reading and another
\* modification of the same window is waiting to be dispatched.
C6_Witness ==
  /\ lastArrival > StartTime
  /\ pending # {}
  /\ now - lastArrival < TicksPerSec

HasHook(h) == current_game_module.loaded /\ h \in current_game_module.hooks

\* C7: when update raises on a tick, draw is still invoked on that tick and
\* the loop goes on to its next tick (or to the shutdown a QUIT asked for);
\* on the next tick of the same instance update is invoked again.
C7_TickIsolation ==
  [][/\ (pc = "frame" /\ pc' # "frame" /\ frame'.upd = "raise")
          => /\ HasHook("draw") => frame'.drw \in {"return", "raise"}
             /\ pc' = IF running THEN "poll" ELSE "stop"
             /\ current_game_module' = current_game_module
             /\ status' = status
     /\ (pc = "frame" /\ pc' # "frame" /\ stale /\ frame.upd = "raise")
          => frame'.upd \in {"return", "raise", "spawn"}]_vars

\* C7 witness: the last tick's update raised, its draw was called and the
\* host is polling the events of the next tick.
C7_Witness ==
  /\ pc = "poll"
  /\ stale
  /\ status = "Active"
  /\ frame.upd = "raise"
  /\ frame.drw = "return"

\* What a module's setup registers in an empty space.
SetupWorld(m) ==
  IF "setup" \in m.hooks THEN RunSetup(m.ops, EmptyWorld).space
  ELSE EmptyWorld

\* C8: a load that ends Active leaves the world holding exactly what the
\* module's setup registers, and a reload of the loaded game whose source is
\* unchanged leaves the counts of the load before it.
C8_ReloadDeterminism ==
  [][(pc = "import" /\ status' = "Active")
       => /\ space' = SetupWorld(current_game_module')
          /\ (/\ ret = "reload"
              /\ current_game_module.loaded
              /\ current_game_module.src = disk[current_game_name])
               => space' = loadedWorld]_vars

\* C8 witness: a reload has just returned Active with the source it loaded
\* still on disk and bodies in the world.
C8_Witness ==
  /\ pc = "reload_end"
  /\ status = "Active"
  /\ current_game_module.src = disk[current_game_name]
  /\ space = loadedWorld
  /\ space.bodies > 0

\* C9: process_reload loads the game selected when the signal is consumed,
\* and the load it starts leaves the selection as it was.
C9_ReloadLoadsSelected ==
  [][/\ (pc = "poll" /\ pc' = "load") /\ ret' = "reload"
          => loadName' = current_game_name
     /\ (pc = "load" /\ ret = "reload")
          => current_game_name' = current_game_name]_vars

\* C9 witness: a reload of the other game is under way; its file has not been
\* modified, so the signal came from a different file.
C9_Witness ==
  /\ pc = "import"
  /\ ret = "reload"
  /\ current_game_name # Edited
  /\ disk[current_game_name] = OtherText

\* C10: when run() has torn down, the observer is stopped and joined and no
\* patch worker is outstanding.
C10_ThreadsJoinedAtExit ==
  pc = "exited" =>
    /\ observer = "stopped"
    /\ \A w \in 1..MaxWorkers : ~InFlight(w)

\* C11: a load that fails leaves no current module, whatever module was
\* current before it, and while the instance is Failed the update and the
\* draw sections of every tick invoke no hook.
C11_NoPluginAfterFailedLoad ==
  [][/\ (pc = "import" /\ status' = "Failed")
          => current_game_module' = NoModule
     /\ (status = "Failed" /\ pc = "update" /\ pc' # pc)
          => frame'.upd = "skip"
     /\ (status = "Failed" /\ pc = "draw" /\ pc' # pc)
          => frame'.drw = "skip"]_vars

\* C11 witness: a load failed after an earlier one had ended Active with
\* bodies in the world, and a whole tick has run since without a hook call.
C11_Witness ==
  /\ status = "Failed"
  /\ loadedWorld.bodies > 0
  /\ sysmod[current_game_name].loaded
  /\ pc = "poll"
  /\ stale
  /\ frame = [upd |-> "skip", drw |-> "skip"]

\* C12: a modification event for a file outside the plugin root (the host's
\* own source, a text file beside it) never sets the reload flag and never
\* moves the watcher's last-accepted timestamp.
C12_OnlyPluginRootEvents ==
  [][(\E p \in {HostPath, NotesPath} : OtherModified(p))
       => UNCHANGED <<reload_queued, last_reload>>]_vars

\* C13: a patch worker reads and overwrites the entry file of the plugin that
\* was selected when its request was handled, whatever is selected when it
\* runs.
C13_WorkerTargetsRequest ==
  \A w \in 1..MaxWorkers :
    workers[w].pc \in {"call", "write", "done"}
      => workers[w].target = workers[w].req

\* A setup body that raises.
Raises(ops) == \E i \in 1..Len(ops) : ops[i] = "raise"

\* The setup body a load of source text runs, the module in sys.modules
\* being inherited: the one the source defines, else the one a module
\* already imported still binds, else none.
SetupRun(text, inherited) ==
  IF "setup" \in Compile(text).def.hooks THEN Compile(text).def.ops
  ELSE IF inherited.loaded /\ "setup" \in inherited.hooks THEN inherited.ops
  ELSE <<>>

\* C14: a Failed instance keeps its selection, so a consumed reload signal
\* loads the selected game again and a selection of another game loads that
\* one; every load that starts runs its import, and it ends Active exactly
\* when the source on disk imports and the setup it runs does not raise,
\* whatever the earlier loads did.
C14_FailedCanLoadAgain ==
  [][/\ status = "Failed" => current_game_name \in Games
     /\ (status = "Failed" /\ reload_queued /\ ReloadCheck)
          => (pc' = "load" /\ ret' = "reload"
              /\ loadName' = current_game_name)
     /\ \A g \in Games \ {current_game_name} :
          (status = "Failed" /\ PollSelect(g))
            => (pc' = "load" /\ ret' = "select" /\ loadName' = g)
     /\ (pc = "load" /\ pc' # pc)
          => (pc' = "import" /\ current_game_name' = loadName)
     /\ (pc = "import" /\ pc' # pc)
          => LET text == disk[current_game_name]
                 good == /\ Compile(text).ok
                         /\ ~Raises(SetupRun(text, sysmod[current_game_name]))
             IN status' = IF good THEN "Active" ELSE "Failed"]_vars

\* C14 witness: the instance is Failed, the signal has been consumed and the
\* load of the still-selected game, whose file now holds a source that
\* imports and sets up cleanly, is about to start over a module whose setup
\* raised.
C14_Witness ==
  /\ status = "Failed"
  /\ pc = "load"
  /\ ret = "reload"
  /\ loadName = current_game_name
  /\ sysmod[loadName].loaded
  /\ Raises(sysmod[loadName].ops)
  /\ disk[loadName] = <<"pendulum">>

\* C15: the status changes only inside load_game, which only a selection
\* or a consumed reload signal enters once the loop runs; a tick section
\* whose hook raises leaves the loaded module, the world, the selected name,
\* the reload flag and the status as they were.
C15_HookErrorChangesNothing ==
  [][/\ status' # status => pc \in {"load", "import"}
     /\ (pc' = "load" /\ pc # "load") => ret' \in {"select", "reload"}
     /\ (\/ pc = "update" /\ pc' # pc /\ frame'.upd = "raise"
         \/ pc = "draw" /\ pc' # pc /\ frame'.drw = "raise")
          => UNCHANGED <<current_game_module, space, current_game_name,
                         reload_queued, status>>]_vars

\* C15 witness: both hooks raised on the last tick and the instance is still
\* Active with its module.
C15_Witness ==
  /\ pc = "poll"
  /\ stale
  /\ frame = [upd |-> "raise", drw |-> "raise"]
  /\ status = "Active"
  /\ current_game_module.loaded

\* The module the last load left: the one it imported when it ended Active,
\* none when it failed.
LeftByLoad ==
  IF status = "Active" THEN sysmod[current_game_name] ELSE NoModule

\* C16: the module, the selection and the world are replaced only inside
\* load_game, which is entered only from the event section of a tick, before
\* the step; from the step to the end of the draw no load is in progress and
\* the current module is the one the last load left; the world changes
\* otherwise only by what update registers; and the sections of a tick run
\* in the order step, update, draw, once each.
C16_NoPartialSwap ==
  [][/\ pc \in {"frame", "update", "draw"}
          => /\ status \in {"Active", "Failed"}
             /\ ret = "none"
             /\ current_game_module = LeftByLoad
     /\ (\/ current_game_module' # current_game_module
         \/ current_game_name' # current_game_name
         \/ sysmod' # sysmod
         \/ status' # status)
          => pc \in {"load", "import"}
     /\ space' # space
          => (pc \in {"load", "import"}
              \/ (pc = "update" /\ frame'.upd = "spawn"))
     /\ pc' # pc
          => /\ pc' = "load" => pc = "poll"
             /\ pc' = "frame" => pc \in {"poll", "reload_end"}
             /\ pc' = "update" => pc = "frame"
             /\ pc' = "draw" => pc = "update"
             /\ pc = "frame" => pc' = "update"
             /\ pc = "update" => pc' = "draw"
             /\ pc = "draw" => pc' \in {"poll", "stop"}]_vars

\* C16 witness: between update and draw of a tick the file of the selected
\* game has changed and the signal is set, and the module about to draw is
\* still the one the last load left.
C16_Witness ==
  /\ pc = "draw"
  /\ status = "Active"
  /\ frame.upd \in {"return", "raise", "spawn"}
  /\ reload_queued
  /\ disk[current_game_name] # current_game_module.src
  /\ current_game_module = sysmod[current_game_name]

\* C17: a load attempt that has ended Active has called the plugin's setup
\* hook exactly once.
C17_SetupOncePerActiveLoad == status = "Active" => setups = 1

\* C18: the dispatch of an event that is rejected, because its file is not a
\* .py file or because no more than 1.0 s has passed since the time kept at
\* the last accepted event, changes neither that time nor the reload flag.
C18_RejectedEventNoEffect ==
  [][\A p \in Paths :
       (Dispatch(p) /\ (p.ext # "py" \/ now - last_reload <= TicksPerSec))
         => UNCHANGED <<last_reload, reload_queued, lastArrival, owed>>]_vars

\* C18 witness: after an accepted event another event of a .py file has been
\* dispatched inside the window and rejected; the time kept is still that of
\* the accepted one.
C18_Witness ==
  /\ dropped = "window"
  /\ lastArrival > 0
  /\ last_reload >= lastArrival
  /\ now - last_reload <= TicksPerSec
  /\ reload_queued

\* C19: when the file of the selected game is saved while the loop runs and
\* from some point on holds one text for good, the module the host runs is
\* from some point on the one loaded from that text.
C19_EditEventuallyLoaded ==
  \A t \in LiveTexts :
    <>[](disk[Edited] = t) => <>[](current_game_module.src = t)

\* C20: when load_game imports the entry file, no patch worker is between
\* its open(path, 'w') and the end of its write of that file: the text the
\* import reads is a complete source, the old one or the new one.
C20_LoadReadsWholeFile ==
  [][(pc = "import" /\ pc' # pc)
       => \A w \in 1..MaxWorkers :
            ~(workers[w].pc = "write"
              /\ workers[w].target = current_game_name)]_vars

=============================================================================
